---- MODULE Spec2Model ----
(***************************************************************************)
(* The experience memory of an energy_py agent (energy_py/agents/memory.py)*)
(* as a state machine: the two experience lists, the configuration, and    *)
(* one action per method of class Memory.                                  *)
(*                                                                         *)
(* Numbers.  Rewards, scaled values and discounted returns are exact       *)
(* rationals <<n, d>> (d > 0, lowest terms).  A value stored in the return *)
(* field is one of                                                         *)
(*    <<"None">>            the Python None put there by                   *)
(*                          make_machine_experience                        *)
(*    <<"num", n, d>>       the finite number n/d                          *)
(*    <<"root", s, n, d>>   the finite number s * sqrt(n/d), s in {-1, 1}, *)
(*                          n/d not the square of a rational               *)
(*    <<"inf", s>>          numpy's +inf / -inf (x / 0.0, x # 0)           *)
(*    <<"nan">>             numpy's nan (0.0 / 0.0)                        *)
(* Floating point rounding is not modelled.                                *)
(***************************************************************************)
EXTENDS Integers, Sequences, FiniteSets, TLC

VARIABLES
    experiences,          \* self.experiences: data as observed
    machine_experiences,  \* self.machine_experiences: data for the networks
    agent_stats,          \* self.agent_stats
    observation_space,    \* configuration, set by __init__
    action_space,
    reward_space,
    discount,
    memory_length,
    process_reward,
    process_return,
    result,               \* the last call: its name, arguments and outcome
    scale_calls,          \* the arrays the last call passed to scale_array
    calculated,           \* episodes calculate_returns ran for since reset
    adds                  \* add_experience calls since the last reset that
                          \* reached the appends

vars == <<experiences, machine_experiences, agent_stats, observation_space,
          action_space, reward_space, discount, memory_length, process_reward,
          process_return, result, scale_calls, calculated, adds>>

config == <<observation_space, action_space, reward_space, discount,
            memory_length, process_reward, process_return>>

(***************************************************************************)
(* Bounds of the model                                                     *)
(***************************************************************************)
MaxLog == 3           \* add_experience is called while the log is shorter
MaxBatch == 2         \* batch_size ranges over 0..MaxBatch
MaxMemoryLength == 2  \* memory_length ranges over 1..MaxMemoryLength

\* the marker the environment passes as next_observation of a terminal step
TerminalSentinel == -999999

Episodes == {1, 2}
Steps == {0}
RewardValues == {0, 1}
ActionValues == {<<2>>}
TerminalObservation == <<TerminalSentinel>>
\* the environment's steps: observation 1 leads to 3, and 3 to the end
Transitions == {[observation |-> <<1>>, next_observation |-> <<3>>],
                [observation |-> <<3>>, next_observation |-> TerminalObservation]}
\* an observation of two values for the one-dimensional space
MalformedTransitions ==
    {[observation |-> <<1, 1>>, next_observation |-> <<3>>]}

RewardModes == {"normalize", "none"}
ReturnModes == {"none", "scale_only", "mean_scale", "min_max"}

(***************************************************************************)
(* Exact rational arithmetic                                               *)
(***************************************************************************)
Abs(x) == IF x < 0 THEN -x ELSE x

Sign(x) == IF x < 0 THEN -1 ELSE IF x = 0 THEN 0 ELSE 1

RECURSIVE GCD(_, _)
GCD(a, b) == IF b = 0 THEN a ELSE GCD(b, a % b)

\* n/d in lowest terms with a positive denominator (d # 0)
Rat(n, d) ==
    LET g == GCD(Abs(n), Abs(d))
        s == IF d < 0 THEN -1 ELSE 1
    IN  <<(s * n) \div g, (s * d) \div g>>

Zero == <<0, 1>>

RAdd(p, q) == Rat(p[1] * q[2] + q[1] * p[2], p[2] * q[2])

RSub(p, q) == Rat(p[1] * q[2] - q[1] * p[2], p[2] * q[2])

RMul(p, q) == Rat(p[1] * q[1], p[2] * q[2])

\* q # 0
RDiv(p, q) == Rat(p[1] * q[2], p[2] * q[1])

RLess(p, q) == p[1] * q[2] < q[1] * p[2]

RECURSIVE RSum(_)
RSum(s) == IF s = <<>> THEN Zero ELSE RAdd(Head(s), RSum(Tail(s)))

RECURSIVE RPow(_, _)
RPow(q, k) == IF k = 0 THEN <<1, 1>> ELSE RMul(q, RPow(q, k - 1))

IsSquare(n) == \E k \in 0..n : k * k = n

ISqrt(n) == CHOOSE k \in 0..n : k * k = n

(***************************************************************************)
(* Values of the return field                                              *)
(***************************************************************************)
None == <<"None">>

NaN == <<"nan">>

Inf(s) == <<"inf", s>>

Num(q) == <<"num", q[1], q[2]>>

\* s * sqrt(q) for a rational q > 0 and s in {-1, 0, 1}
Root(s, q) ==
    IF s = 0 THEN Num(Zero)
    ELSE IF IsSquare(q[1]) /\ IsSquare(q[2])
         THEN Num(<<s * ISqrt(q[1]), ISqrt(q[2])>>)
         ELSE <<"root", s, q[1], q[2]>>

IsNaN(v) == v = NaN

IsFinite(v) == v[1] \in {"num", "root"}

(***************************************************************************)
(* Utils (energy_py/utils): the scaling collaborators of Memory            *)
(***************************************************************************)
\* Utils.normalize: value mapped into [0, 1] by the declared bounds
normalize(value, low, high) == Rat(value - low, high - low)

\* Utils.scale_array: every dimension normalised by the bounds of its space
scale_array(array, space) ==
    [i \in 1..Len(array) |-> normalize(array[i], space[i].low, space[i].high)]

\* Utils.scale_array fails fast on an array that has not the arity of its
\* space
ScaleArrayRaises(array, space) == Len(array) # Len(space)

(***************************************************************************)
(* Memory.make_machine_experience                                          *)
(***************************************************************************)
\* numpy's array.all(): a bool, which Python compares with an int as 1 or 0
NpAll(array) == IF \A i \in 1..Len(array) : array[i] # 0 THEN 1 ELSE 0

\* line 146: if exp[3].all() == -999999
IsTerminalCheck(next_observation) == NpAll(next_observation) = TerminalSentinel

\* lines 134-141
ProcessReward(reward) ==
    IF process_reward = "normalize"
    THEN normalize(reward, reward_space.low, reward_space.high)
    ELSE <<reward, 1>>

\* lines 146-149
ScaledNextObservation(next_observation) ==
    IF IsTerminalCheck(next_observation)
    THEN next_observation
    ELSE scale_array(next_observation, observation_space)

\* the return field filled at once with the reward instead of None
make_machine_experience_return_set(exp) ==
    [observation       |-> scale_array(exp.observation, observation_space),
     action            |-> scale_array(exp.action, action_space),
     reward            |-> ProcessReward(exp.reward),
     next_observation  |-> ScaledNextObservation(exp.next_observation),
     step              |-> exp.step,
     episode           |-> exp.episode,
     discounted_return |-> Num(ProcessReward(exp.reward))]

make_machine_experience(exp) ==
    [observation       |-> scale_array(exp.observation, observation_space),
     action            |-> scale_array(exp.action, action_space),
     reward            |-> ProcessReward(exp.reward),
     next_observation  |-> ScaledNextObservation(exp.next_observation),
     step              |-> exp.step,
     episode           |-> exp.episode,
     discounted_return |-> None]

\* the arrays make_machine_experience hands to scale_array, in call order
ScaleArrayCalls(exp) ==
    <<exp.observation, exp.action>>
    \o (IF IsTerminalCheck(exp.next_observation)
        THEN <<>>
        ELSE <<exp.next_observation>>)

\* lines 131-149: a scale_array call of make_machine_experience raises
MakeMachineExperienceRaises(exp) ==
    \/ ScaleArrayRaises(exp.observation, observation_space)
    \/ ScaleArrayRaises(exp.action, action_space)
    \/ /\ ~IsTerminalCheck(exp.next_observation)
       /\ ScaleArrayRaises(exp.next_observation, observation_space)

\* the arrays handed to scale_array up to the call that raises
ScaleArrayCallsUntilRaise(exp) ==
    IF ScaleArrayRaises(exp.observation, observation_space)
    THEN <<exp.observation>>
    ELSE IF ScaleArrayRaises(exp.action, action_space)
    THEN <<exp.observation, exp.action>>
    ELSE ScaleArrayCalls(exp)

(***************************************************************************)
(* Memory.__init__, Memory.reset, Memory.add_experience                    *)
(* The assert of line 118 runs after both appends.                         *)
(***************************************************************************)
Last(list) == list[Len(list)]

\* what a call leaves behind for the caller: out holds the returned arrays
Outcome(op, args, status, out) ==
    [op |-> op, args |-> args, status |-> status, out |-> out]

\* the state __init__ leaves, for a configuration drawn from the given sets
InitWith(discounts, memory_lengths, reward_modes, return_modes) ==
    /\ experiences = <<>>
    /\ machine_experiences = <<>>
    /\ agent_stats = <<>>
    /\ observation_space = <<[low |-> 0, high |-> 4]>>
    /\ action_space = <<[low |-> 0, high |-> 4]>>
    /\ reward_space = [low |-> -1, high |-> 1]
    /\ discount \in discounts
    /\ memory_length \in memory_lengths
    /\ process_reward \in reward_modes
    /\ process_return \in return_modes
    /\ result = Outcome("__init__", <<>>, "ok", <<>>)
    /\ scale_calls = <<>>
    /\ calculated = {}
    /\ adds = 0

Init == InitWith({<<1, 2>>, <<1, 1>>}, 1..MaxMemoryLength, RewardModes, ReturnModes)

\* reset forgets the two lists and keeps the statistics
reset_keeps_stats ==
    /\ experiences' = <<>>
    /\ machine_experiences' = <<>>
    /\ result' = Outcome("reset", <<>>, "ok", <<>>)
    /\ scale_calls' = <<>>
    /\ calculated' = {}
    /\ adds' = 0
    /\ UNCHANGED <<agent_stats, config>>

reset ==
    /\ experiences' = <<>>
    /\ machine_experiences' = <<>>
    /\ agent_stats' = <<>>
    /\ result' = Outcome("reset", <<>>, "ok", <<>>)
    /\ scale_calls' = <<>>
    /\ calculated' = {}
    /\ adds' = 0
    /\ UNCHANGED config

\* one reward in two misses its machine experience
add_experience_missing_machine ==
    /\ Len(experiences) < MaxLog
    /\ \E transition \in Transitions, action \in ActionValues,
          reward \in RewardValues, step \in Steps, episode \in Episodes :
          LET exp == [observation      |-> transition.observation,
                      action           |-> action,
                      reward           |-> reward,
                      next_observation |-> transition.next_observation,
                      step             |-> step,
                      episode          |-> episode]
          IN  /\ experiences' = Append(experiences, exp)
              /\ machine_experiences' =
                     IF reward = 0 THEN machine_experiences
                     ELSE Append(machine_experiences,
                                 make_machine_experience(exp))
              /\ scale_calls' = ScaleArrayCalls(exp)
              /\ result' = Outcome("add_experience", <<exp>>,
                     IF Len(experiences') = Len(machine_experiences')
                     THEN "ok" ELSE "error", <<>>)
    /\ adds' = adds + 1
    /\ UNCHANGED <<agent_stats, config, calculated>>

\* add_experience for an experience drawn from the given transitions and
\* rewards, called while the given log is shorter than MaxLog;
\* make_machine_experience (line 112) runs, and may raise, before the two
\* appends
AddExperienceTo(log, transitions, rewards) ==
    /\ Len(log) < MaxLog
    /\ \E transition \in transitions, action \in ActionValues,
          reward \in rewards, step \in Steps, episode \in Episodes :
          LET exp == [observation      |-> transition.observation,
                      action           |-> action,
                      reward           |-> reward,
                      next_observation |-> transition.next_observation,
                      step             |-> step,
                      episode          |-> episode]
          IN  IF MakeMachineExperienceRaises(exp)
              THEN /\ UNCHANGED <<experiences, machine_experiences, adds>>
                   /\ scale_calls' = ScaleArrayCallsUntilRaise(exp)
                   /\ result' = Outcome("add_experience", <<exp>>, "error",
                                        <<>>)
              ELSE /\ experiences' = Append(experiences, exp)
                   /\ machine_experiences' =
                          Append(machine_experiences,
                                 make_machine_experience(exp))
                   /\ scale_calls' = ScaleArrayCalls(exp)
                   /\ result' = Outcome("add_experience", <<exp>>,
                          IF Len(experiences') = Len(machine_experiences')
                          THEN "ok" ELSE "error", <<>>)
                   /\ adds' = adds + 1
    /\ UNCHANGED <<agent_stats, config, calculated>>

AddExperience(transitions, rewards) ==
    AddExperienceTo(experiences, transitions, rewards)

add_experience == AddExperience(Transitions, RewardValues)

\* add_experience for the steps that do not end an episode
add_experience_inner_step ==
    AddExperience({t \in Transitions :
                       t.next_observation # TerminalObservation},
                  RewardValues)

\* add_experience for the steps with reward 1
add_experience_rewarded == AddExperience(Transitions, {1})

\* experiences of every shape, one reward, also on a store whose machine
\* log is the shorter one
add_experience_any_shape ==
    AddExperienceTo(machine_experiences,
                    Transitions \cup MalformedTransitions, {1})

(***************************************************************************)
(* Memory.calculate_returns                                                *)
(***************************************************************************)
\* line 183: all_experiences[:, 5] == episode_number
EpisodeMask(log, episode_number) ==
    [i \in 1..Len(log) |-> log[i].episode = episode_number]

\* 1-based positions a boolean mask selects, in increasing order
RECURSIVE MaskIndices(_, _)
MaskIndices(mask, n) ==
    IF n = 0 THEN <<>>
    ELSE MaskIndices(mask, n - 1) \o (IF mask[n] THEN <<n>> ELSE <<>>)

\* numpy boolean indexing: array[mask]
Masked(array, mask) ==
    LET idx == MaskIndices(mask, Len(mask))
    IN  [j \in 1..Len(idx) |-> array[idx[j]]]

\* the loop with the discount left out: R = r + R
RECURSIVE BellmanLoop_undiscounted(_, _, _, _)
BellmanLoop_undiscounted(rewards, k, R, returns) ==
    IF k = 0 THEN returns
    ELSE LET R2 == RAdd(rewards[k], R)
         IN  BellmanLoop_undiscounted(rewards, k - 1, R2, <<R2>> \o returns)

\* lines 188-193: the loop over the reversed episode; k records are left,
\* R is the return of the record after them
RECURSIVE BellmanLoop(_, _, _, _)
BellmanLoop(rewards, k, R, returns) ==
    IF k = 0 THEN returns
    ELSE LET R2 == RAdd(rewards[k], RMul(discount, R))
         IN  BellmanLoop(rewards, k - 1, R2, <<R2>> \o returns)

\* the loop starts from the returns the records already hold
DiscountedReturns_on_returns(episode_experiences) ==
    BellmanLoop([j \in 1..Len(episode_experiences) |->
                     IF episode_experiences[j].discounted_return[1] = "num"
                     THEN RAdd(episode_experiences[j].reward,
                               <<episode_experiences[j].discounted_return[2],
                                 episode_experiences[j].discounted_return[3]>>)
                     ELSE episode_experiences[j].reward],
                Len(episode_experiences), Zero, <<>>)

DiscountedReturns(episode_experiences) ==
    BellmanLoop([j \in 1..Len(episode_experiences) |->
                     episode_experiences[j].reward],
                Len(episode_experiences), Zero, <<>>)

\* numpy statistics of a non-empty array of rationals
Mean(rtns) == RDiv(RSum(rtns), <<Len(rtns), 1>>)

\* rtns.std() ** 2 (the population variance, ddof = 0)
Variance(rtns) ==
    LET m == Mean(rtns)
    IN  Mean([j \in 1..Len(rtns) |->
                  RMul(RSub(rtns[j], m), RSub(rtns[j], m))])

\* the smallest return taken to be 0
Min_zero(rtns) == Zero

Min(rtns) ==
    CHOOSE x \in {rtns[j] : j \in 1..Len(rtns)} :
        \A j \in 1..Len(rtns) : ~RLess(rtns[j], x)

Max(rtns) ==
    CHOOSE x \in {rtns[j] : j \in 1..Len(rtns)} :
        \A j \in 1..Len(rtns) : ~RLess(x, rtns[j])

\* numpy float division p / q: a zero divisor gives nan or +-inf, no error
NpDivide(p, q) ==
    IF q = Zero
    THEN IF p = Zero THEN NaN ELSE Inf(Sign(p[1]))
    ELSE Num(RDiv(p, q))

\* p / sqrt(variance)
NpDivideByStd(p, variance) ==
    IF variance = Zero
    THEN IF p = Zero THEN NaN ELSE Inf(Sign(p[1]))
    ELSE Root(Sign(p[1]), RDiv(RMul(p, p), variance))

\* lines 206-211
ProcessReturns(rtns) ==
    IF process_return = "scale_only"
    THEN [j \in 1..Len(rtns) |-> NpDivideByStd(rtns[j], Variance(rtns))]
    ELSE IF process_return = "mean_scale"
    THEN [j \in 1..Len(rtns) |->
              NpDivideByStd(RSub(rtns[j], Mean(rtns)), Variance(rtns))]
    ELSE IF process_return = "min_max"
    THEN [j \in 1..Len(rtns) |->
              NpDivide(RSub(rtns[j], Min(rtns)),
                       RSub(Max(rtns), Min(rtns)))]
    ELSE [j \in 1..Len(rtns) |-> Num(rtns[j])]

\* the last record of the episode left without its return
NewExps_skips_last(episode_experiences, rtns) ==
    [j \in 1..Len(episode_experiences) |->
         IF j = Len(episode_experiences) /\ j > 1
         THEN episode_experiences[j]
         ELSE [episode_experiences[j] EXCEPT !.discounted_return = rtns[j]]]

\* lines 219-223
NewExps(episode_experiences, rtns) ==
    [j \in 1..Len(episode_experiences) |->
         [episode_experiences[j] EXCEPT !.discounted_return = rtns[j]]]

\* Python slice assignment list[start:end] = new (start, end 0-based)
SliceAssign(list, start, end, new) ==
    SubSeq(list, 1, start) \o new \o SubSeq(list, end + 1, Len(list))

\* lines 225-234
WriteBack(log, episode_mask, new_exps) ==
    LET episode_indicies == MaskIndices(episode_mask, Len(episode_mask))
        start == episode_indicies[1] - 1
        end == episode_indicies[Len(episode_indicies)]
    IN  SliceAssign(log, start, end, new_exps)

\* the machine log after calculate_returns(episode_number) on a log that holds
\* the episode
CalculateReturns(log, episode_number) ==
    LET episode_mask == EpisodeMask(log, episode_number)
        episode_experiences == Masked(log, episode_mask)
        rtns == ProcessReturns(DiscountedReturns(episode_experiences))
    IN  WriteBack(log, episode_mask, NewExps(episode_experiences, rtns))

EpisodePresent(log, episode_number) ==
    \E i \in 1..Len(log) : log[i].episode = episode_number

\* an episode without records passes silently
calculate_returns_absent_silent ==
    \E episode_number \in Episodes :
        /\ machine_experiences' =
               IF EpisodePresent(machine_experiences, episode_number)
               THEN CalculateReturns(machine_experiences, episode_number)
               ELSE machine_experiences
        /\ calculated' = calculated \cup {episode_number}
        /\ result' = Outcome("calculate_returns", <<episode_number>>, "ok",
                             <<>>)
        /\ scale_calls' = <<>>
        /\ UNCHANGED <<experiences, agent_stats, config, adds>>

\* An episode without records ends in an IndexError (line 183 on an empty
\* log, line 232 otherwise) or a ValueError (line 211), before line 234.
calculate_returns ==
    \E episode_number \in Episodes :
        /\ IF EpisodePresent(machine_experiences, episode_number)
           THEN /\ machine_experiences' =
                       CalculateReturns(machine_experiences, episode_number)
                /\ calculated' = calculated \cup {episode_number}
                /\ result' = Outcome("calculate_returns", <<episode_number>>,
                                     "ok", <<>>)
           ELSE /\ UNCHANGED <<machine_experiences, calculated>>
                /\ result' = Outcome("calculate_returns", <<episode_number>>,
                                     "error", <<>>)
        /\ scale_calls' = <<>>
        /\ UNCHANGED <<experiences, agent_stats, config, adds>>

(***************************************************************************)
(* Memory.get_episode_batch                                                *)
(***************************************************************************)
\* np.isnan over the returns column raises TypeError when a None makes the
\* array an object array; the assert of line 282 fails on a nan
ReturnsCheckPasses(returns) ==
    /\ \A j \in 1..Len(returns) : returns[j] # None
    /\ \A j \in 1..Len(returns) : ~IsNaN(returns[j])

\* the observations taken from the head of the whole log, not of the episode
EpisodeBatch_unmasked(exps, mach_exps, episode_number, scaled_actions) ==
    LET episode_mask == EpisodeMask(mach_exps, episode_number)
        episode_exps == Masked(exps, episode_mask)
        episode_mach_exps == Masked(mach_exps, episode_mask)
        n == Len(episode_mach_exps)
    IN  <<[j \in 1..n |-> mach_exps[j].observation],
          [j \in 1..n |-> IF scaled_actions
                          THEN episode_mach_exps[j].action
                          ELSE episode_exps[j].action],
          [j \in 1..n |-> episode_mach_exps[j].discounted_return]>>

\* lines 255-275: the three columns, for logs of equal length
EpisodeBatch(exps, mach_exps, episode_number, scaled_actions) ==
    LET episode_mask == EpisodeMask(mach_exps, episode_number)
        episode_exps == Masked(exps, episode_mask)
        episode_mach_exps == Masked(mach_exps, episode_mask)
        n == Len(episode_mach_exps)
    IN  <<[j \in 1..n |-> episode_mach_exps[j].observation],
          [j \in 1..n |-> IF scaled_actions
                          THEN episode_mach_exps[j].action
                          ELSE episode_exps[j].action],
          [j \in 1..n |-> episode_mach_exps[j].discounted_return]>>

\* line 252 asserts equal lengths; line 255 raises IndexError on an empty log
get_episode_batch ==
    \E episode_number \in Episodes, scaled_actions \in BOOLEAN :
        LET args == <<episode_number, scaled_actions>>
            batch == EpisodeBatch(experiences, machine_experiences,
                                  episode_number, scaled_actions)
        IN  /\ result' =
                   IF \/ Len(experiences) # Len(machine_experiences)
                      \/ Len(machine_experiences) = 0
                   THEN Outcome("get_episode_batch", args, "error", <<>>)
                   ELSE IF ~ReturnsCheckPasses(batch[3])
                   THEN Outcome("get_episode_batch", args, "error", <<>>)
                   ELSE Outcome("get_episode_batch", args, "ok", batch)
            /\ scale_calls' = <<>>
            /\ UNCHANGED <<experiences, machine_experiences, agent_stats,
                           config, calculated, adds>>

(***************************************************************************)
(* Memory.get_random_batch                                                 *)
(***************************************************************************)
\* the sample capped by the window instead of the whole log
SampleSize_window(batch_size, log) ==
    LET n == IF Len(log) < memory_length THEN Len(log) ELSE memory_length
    IN  IF batch_size < n THEN batch_size ELSE n

\* line 299
SampleSize(batch_size, log) ==
    IF batch_size < Len(log) THEN batch_size ELSE Len(log)

\* the slice list[:m]: the oldest m records
MachMemory_oldest(log, m) ==
    SubSeq(log, 1, IF Len(log) > m THEN m ELSE Len(log))

\* line 302: the Python slice list[-m:]
MachMemory(log, m) ==
    IF m = 0 THEN log
    ELSE IF m > 0
         THEN SubSeq(log, IF Len(log) > m THEN Len(log) - m + 1 ELSE 1,
                     Len(log))
         ELSE SubSeq(log, 1 - m, Len(log))

\* lines 310-324: the four columns of the records at the drawn indices
RandomBatch(mach_memory, indicies) ==
    LET n == Len(indicies)
        mach_exp_batch == [j \in 1..n |-> mach_memory[indicies[j] + 1]]
    IN  <<[j \in 1..n |-> mach_exp_batch[j].observation],
          [j \in 1..n |-> mach_exp_batch[j].action],
          [j \in 1..n |-> mach_exp_batch[j].reward],
          [j \in 1..n |-> mach_exp_batch[j].next_observation]>>

\* get_random_batch keeps of the machine log the window it samples from
get_random_batch_truncating ==
    \E batch_size \in 0..MaxBatch :
        LET sample_size == SampleSize(batch_size, machine_experiences)
            mach_memory == MachMemory(machine_experiences, memory_length)
        IN  /\ IF Len(mach_memory) = 0
               THEN result' = Outcome("get_random_batch", <<batch_size>>,
                                      "error", <<>>)
               ELSE \E indicies \in
                        [1..sample_size -> 0..(Len(mach_memory) - 1)] :
                        result' =
                            Outcome("get_random_batch", <<batch_size>>, "ok",
                                    RandomBatch(mach_memory, indicies))
            /\ machine_experiences' = mach_memory
            /\ scale_calls' = <<>>
            /\ UNCHANGED <<experiences, agent_stats, config, calculated,
                           adds>>

\* On an empty window np.random.randint(low=0, high=0, size) raises
\* ValueError; the numpy releases that look at size first return no index
\* when size is 0.
get_random_batch ==
    \E batch_size \in 0..MaxBatch :
        LET sample_size == SampleSize(batch_size, machine_experiences)
            mach_memory == MachMemory(machine_experiences, memory_length)
        IN  /\ IF Len(mach_memory) = 0
               THEN \/ result' = Outcome("get_random_batch", <<batch_size>>,
                                         "error", <<>>)
                    \/ /\ sample_size = 0
                       /\ result' = Outcome("get_random_batch", <<batch_size>>,
                                            "ok", RandomBatch(mach_memory, <<>>))
               ELSE \E indicies \in
                        [1..sample_size -> 0..(Len(mach_memory) - 1)] :
                        result' =
                            Outcome("get_random_batch", <<batch_size>>, "ok",
                                    RandomBatch(mach_memory, indicies))
            /\ scale_calls' = <<>>
            /\ UNCHANGED <<experiences, machine_experiences, agent_stats,
                           config, calculated, adds>>

(***************************************************************************)
(* Memory.agent_stats: a dictionary of lists the agent appends to, held as *)
(* the sequence of its <<name, values>> items in insertion order           *)
(***************************************************************************)
MaxStats == 1

StatNames == {"loss", "epsilon"}
StatValues == {7}

\* the number of values held over every statistic
RECURSIVE StatCount(_)
StatCount(stats) ==
    IF stats = <<>> THEN 0
    ELSE Len(stats[1][2]) + StatCount(Tail(stats))

\* agent_stats[name].append(value) on a defaultdict(list)
AppendStat(stats, name, value) ==
    IF \E i \in 1..Len(stats) : stats[i][1] = name
    THEN [i \in 1..Len(stats) |->
              IF stats[i][1] = name
              THEN <<name, Append(stats[i][2], value)>>
              ELSE stats[i]]
    ELSE Append(stats, <<name, <<value>>>>)

append_agent_stat ==
    /\ StatCount(agent_stats) < MaxStats
    /\ \E name \in StatNames, value \in StatValues :
          /\ agent_stats' = AppendStat(agent_stats, name, value)
          /\ result' = Outcome("agent_stats.append", <<name, value>>, "ok",
                               <<>>)
    /\ scale_calls' = <<>>
    /\ UNCHANGED <<experiences, machine_experiences, config, calculated, adds>>

(***************************************************************************)
(* Memory.output_results: the step table and the episode table             *)
(***************************************************************************)
MaxEpisodes == 30

\* a store holding the episodes 1..n in order, one record each but for
\* episode k, which holds m records; the records of episode k have reward 1
\* and the others reward 0
ReportLog(n, k, m) ==
    [p \in 1..(n + m - 1) |->
         LET episode == IF p < k THEN p
                        ELSE IF p < k + m THEN k ELSE p - m + 1
         IN  [observation      |-> <<1>>,
              action           |-> <<2>>,
              reward           |-> IF episode = k THEN 1 ELSE 0,
              next_observation |-> <<3>>,
              step             |-> IF episode = k THEN p - k ELSE 0,
              episode          |-> episode]]

\* line 383, the keys of groupby(by=['episode']): the episode ids ascending
RECURSIVE SortAscending(_)
SortAscending(ids) ==
    IF ids = {} THEN <<>>
    ELSE LET least == CHOOSE x \in ids : \A y \in ids : x <= y
         IN  <<least>> \o SortAscending(ids \ {least})

\* line 383, .sum() of the column reward over the rows of one episode
RECURSIVE GroupSum(_, _, _)
GroupSum(exps, episode, p) ==
    IF p = 0 THEN 0
    ELSE (IF exps[p].episode = episode THEN exps[p].reward ELSE 0)
             + GroupSum(exps, episode, p - 1)

\* line 389, Series.cummax
CumMax(values) ==
    [i \in 1..Len(values) |->
         CHOOSE x \in {values[j] : j \in 1..i} :
             \A j \in 1..i : values[j] <= x]

\* line 392: max(int(n * 0.1), 2); the double n * 0.1 is never under n / 10
Window(n_episodes) ==
    IF n_episodes \div 10 > 2 THEN n_episodes \div 10 ELSE 2

RECURSIVE SumFromTo(_, _, _)
SumFromTo(values, first, last) ==
    IF first > last THEN 0
    ELSE values[first] + SumFromTo(values, first + 1, last)

\* the mean of a truncated window taken over the whole window
RollingMean_fixed_divisor(values, window) ==
    [i \in 1..Len(values) |->
         LET first == IF i - window + 1 < 1 THEN 1 ELSE i - window + 1
         IN  Rat(SumFromTo(values, first, i), window)]

\* lines 394-396: rolling(window, min_periods=1, center=False).mean(); the
\* window of row i ends at row i
RollingMean(values, window) ==
    [i \in 1..Len(values) |->
         LET first == IF i - window + 1 < 1 THEN 1 ELSE i - window + 1
         IN  Rat(SumFromTo(values, first, i), i - first + 1)]

\* lines 348-396: the columns of the two tables the claims read
OutputResults(exps, mach_exps, stats) ==
    LET episodes == SortAscending({exps[p].episode : p \in 1..Len(exps)})
        reward == [k \in 1..Len(episodes) |->
                       GroupSum(exps, episodes[k], Len(exps))]
    IN  [dataframe_steps |->
             [episode |-> [p \in 1..Len(exps) |-> exps[p].episode],
              step |-> [p \in 1..Len(exps) |-> exps[p].step],
              reward |-> [p \in 1..Len(exps) |-> exps[p].reward],
              discounted_return |->
                  [p \in 1..Len(exps) |-> mach_exps[p].discounted_return]],
         dataframe_episodic |->
             [episode |-> episodes,
              reward |-> reward,
              cum_max_reward |-> CumMax(reward),
              rolling_mean |-> RollingMean(reward, Window(Len(episodes)))],
         agent_stats |-> stats]

\* The assert of line 346 stops the call on logs of different lengths. What
\* groupby, cummax and rolling do on a table without rows depends on the
\* pandas release: the call raises or returns empty tables.
output_results ==
    /\ IF Len(experiences) # Len(machine_experiences)
       THEN result' = Outcome("output_results", <<>>, "error", <<>>)
       ELSE \E status \in (IF experiences = <<>>
                           THEN {"ok", "error"} ELSE {"ok"}) :
                result' =
                    Outcome("output_results", <<>>, status,
                            IF status = "ok"
                            THEN OutputResults(experiences,
                                               machine_experiences,
                                               agent_stats)
                            ELSE <<>>)
    /\ scale_calls' = <<>>
    /\ UNCHANGED <<experiences, machine_experiences, agent_stats, config,
                   calculated, adds>>

(***************************************************************************)
(* Specifications                                                          *)
(***************************************************************************)
\* every method, every configuration
Next ==
    \/ reset
    \/ add_experience
    \/ calculate_returns
    \/ get_episode_batch
    \/ get_random_batch
    \/ append_agent_stat
    \/ output_results

Spec == Init /\ [][Next]_vars

\* the store alone: experiences are added and the store is reset
InitStore == InitWith({<<1, 2>>}, {1}, RewardModes, {"none"})

NextStore ==
    \/ reset
    \/ add_experience

SpecStore == InitStore /\ [][NextStore]_vars

\* the store and the return calculation, which reads episode and reward
\* only: every discount and processing mode, one transition
InitReturns ==
    InitWith({<<0, 1>>, <<1, 2>>, <<1, 1>>}, {1}, RewardModes, ReturnModes)

NextReturns ==
    \/ reset
    \/ add_experience_inner_step
    \/ calculate_returns

SpecReturns == InitReturns /\ [][NextReturns]_vars

\* episode batches of a store whose returns are calculated; under
\* scale_only the returns written are numbers, inf or nan
InitEpisodeBatch ==
    InitWith({<<1, 2>>}, {1}, {"none"}, {"scale_only"})

NextEpisodeBatch ==
    \/ reset
    \/ add_experience
    \/ calculate_returns
    \/ get_episode_batch

SpecEpisodeBatch == InitEpisodeBatch /\ [][NextEpisodeBatch]_vars

\* random batches, which read neither rewards' values nor returns: every
\* memory_length, one reward
InitRandomBatch ==
    InitWith({<<1, 2>>}, 1..MaxMemoryLength, RewardModes, {"none"})

NextRandomBatch ==
    \/ reset
    \/ add_experience_rewarded
    \/ calculate_returns
    \/ get_random_batch

SpecRandomBatch == InitRandomBatch /\ [][NextRandomBatch]_vars

\* the batch calls on a store the agent also writes statistics to
InitReads == InitWith({<<1, 2>>}, {1}, {"none"}, {"none"})

NextReads ==
    \/ reset
    \/ add_experience_rewarded
    \/ calculate_returns
    \/ append_agent_stat
    \/ get_episode_batch
    \/ get_random_batch

SpecReads == InitReads /\ [][NextReads]_vars

\* the store filled, its returns calculated and statistics appended, then
\* reset
InitStats ==
    InitWith({<<1, 2>>}, 1..MaxMemoryLength, RewardModes, {"none", "min_max"})

NextStats ==
    \/ reset
    \/ add_experience_inner_step
    \/ calculate_returns
    \/ append_agent_stat

SpecStats == InitStats /\ [][NextStats]_vars

\* add_experience with well-formed and malformed experiences, on stores
\* whose returns are calculated
InitAdd == InitWith({<<1, 2>>}, {1}, RewardModes, {"none"})

NextAdd ==
    \/ reset
    \/ add_experience_any_shape
    \/ calculate_returns

SpecAdd == InitAdd /\ [][NextAdd]_vars

\* the tables of output_results, for stores of up to MaxEpisodes episodes
\* and for the stores add_experience builds after a reset
InitReport ==
    /\ observation_space = <<[low |-> 0, high |-> 4]>>
    /\ action_space = <<[low |-> 0, high |-> 4]>>
    /\ reward_space = [low |-> -1, high |-> 1]
    /\ discount = <<1, 2>>
    /\ memory_length = 1
    /\ process_reward = "none"
    /\ process_return = "none"
    /\ \E n \in 1..MaxEpisodes : \E k \in 1..n : \E m \in 1..2 :
           experiences = ReportLog(n, k, m)
    /\ machine_experiences =
           [p \in 1..Len(experiences) |->
                make_machine_experience(experiences[p])]
    /\ agent_stats = <<>>
    /\ result = Outcome("add_experience", <<>>, "ok", <<>>)
    /\ scale_calls = ScaleArrayCalls(Last(experiences))
    /\ calculated = {}
    /\ adds = Len(experiences)

NextReport ==
    \/ reset
    \/ add_experience_rewarded
    \/ calculate_returns
    \/ output_results

SpecReport == InitReport /\ [][NextReport]_vars

(***************************************************************************)
(* Properties                                                              *)
(***************************************************************************)
\* the 1-based positions of the records of an episode in a log, as a set
PositionsOf(log, e) == {p \in 1..Len(log) : log[p].episode = e}

\* the position of the j-th record of episode e in a log
NthPositionOf(log, e, j) ==
    CHOOSE p \in PositionsOf(log, e) :
        Cardinality({q \in PositionsOf(log, e) : q <= p}) = j

\* sum over k >= i of discount^(k - i) * rewards[k]
RECURSIVE DiscountedSumFrom(_, _, _)
DiscountedSumFrom(rewards, i, k) ==
    IF k > Len(rewards) THEN Zero
    ELSE RAdd(RMul(RPow(discount, k - i), rewards[k]),
              DiscountedSumFrom(rewards, i, k + 1))

\* the rewards of the records of episode e, in log order
EpisodeRewards(log, e) ==
    [j \in 1..Cardinality(PositionsOf(log, e)) |->
         log[NthPositionOf(log, e, j)].reward]

\* the returns of the records of episode e, in log order
EpisodeReturns(log, e) ==
    [j \in 1..Cardinality(PositionsOf(log, e)) |->
         log[NthPositionOf(log, e, j)].discounted_return]

CalculatedOk == result.op = "calculate_returns" /\ result.status = "ok"

\* C1: with only add_experience and reset called, the raw log and the machine
\* log have the same length, the number of add_experience calls since the
\* last reset.
C1_LogsSameLength ==
    /\ Len(experiences) = Len(machine_experiences)
    /\ Len(experiences) = adds

C1_Witness ==
    /\ result.op = "add_experience"
    /\ adds = 3
    /\ Len(machine_experiences) = 3

SameButReturn(a, b) ==
    [a EXCEPT !.discounted_return = None] =
        [b EXCEPT !.discounted_return = None]

C3_CalculateChangesOnlyEpisodeReturns ==
    [][(result'.op = "calculate_returns" /\ result'.status = "ok")
       => /\ Len(machine_experiences') = Len(machine_experiences)
          /\ \A i \in 1..Len(machine_experiences) :
                 IF machine_experiences[i].episode = result'.args[1]
                 THEN SameButReturn(machine_experiences'[i],
                                    machine_experiences[i])
                 ELSE machine_experiences'[i] = machine_experiences[i]]_vars

\* C4: add_experience copies a terminal next_observation through without
\* passing it to scale_array, and scales any other next_observation with the
\* observation space.
C4_TerminalNotScaled ==
    (result.op = "add_experience")
    => IF Last(experiences).next_observation = TerminalObservation
       THEN /\ \A k \in 1..Len(scale_calls) :
                   scale_calls[k] # TerminalObservation
            /\ Last(machine_experiences).next_observation =
                   TerminalObservation
       ELSE /\ Len(scale_calls) = 3
            /\ scale_calls[3] = Last(experiences).next_observation
            /\ Last(machine_experiences).next_observation =
                   scale_array(Last(experiences).next_observation,
                               observation_space)

\* C5: with return processing "none", after calculate_returns(e) the i-th
\* record of e holds the sum over k >= i of discount^(k-i) times the reward
\* of the k-th record of e; rewards [1, 1, 1] with discount 1/2 give
\* [7/4, 3/2, 1].
C5_ReturnsAreDiscountedSums ==
    (CalculatedOk /\ process_return = "none")
    => LET e == result.args[1]
           rewards == EpisodeRewards(machine_experiences, e)
           returns == EpisodeReturns(machine_experiences, e)
       IN  /\ \A i \in 1..Len(rewards) :
                  returns[i] = Num(DiscountedSumFrom(rewards, i, i))
           /\ (rewards = <<<<1, 1>>, <<1, 1>>, <<1, 1>>>>
               /\ discount = <<1, 2>>)
              => returns = <<<<"num", 7, 4>>, <<"num", 3, 2>>, <<"num", 1, 1>>>>

C5_Witness ==
    /\ CalculatedOk
    /\ process_return = "none"
    /\ discount = <<1, 2>>
    /\ EpisodeRewards(machine_experiences, result.args[1]) =
           <<<<1, 1>>, <<1, 1>>, <<1, 1>>>>
    /\ EpisodeReturns(machine_experiences, result.args[1]) =
           <<<<"num", 7, 4>>, <<"num", 3, 2>>, <<"num", 1, 1>>>>

RandomBatchOk == result.op = "get_random_batch" /\ result.status = "ok"

MinOf(a, b) == IF a < b THEN a ELSE b

\* the positions of the most recent memory_length records of the machine log
WindowPositions ==
    {p \in 1..Len(machine_experiences) :
         p > Len(machine_experiences) - memory_length}

\* C6 as claimed: get_random_batch(batch_size) returns min(batch_size, number
\* of records in the sampling window) rows in each of its four arrays.
C6_RowsMinBatchWindow ==
    RandomBatchOk
    => \A k \in 1..4 :
           Len(result.out[k]) =
               MinOf(result.args[1], Cardinality(WindowPositions))

\* C6 as amended: a get_random_batch(batch_size) that returns gives each of
\* its four arrays min(batch_size, number of records in the machine log)
\* rows, whatever memory_length is.
C6_RowsMinBatchTotal ==
    RandomBatchOk
    => /\ Len(result.out) = 4
       /\ \A k \in 1..4 :
              Len(result.out[k]) =
                  MinOf(result.args[1], Len(machine_experiences))

\* two rows drawn from a window of one record
C6_Witness ==
    /\ RandomBatchOk
    /\ result.args[1] = 2
    /\ memory_length = 1
    /\ Len(machine_experiences) >= 2
    /\ Len(result.out[1]) = 2

\* row j of a random batch holds the four fields of the record at position p
RowIsRecord(j, p) ==
    /\ result.out[1][j] = machine_experiences[p].observation
    /\ result.out[2][j] = machine_experiences[p].action
    /\ result.out[3][j] = machine_experiences[p].reward
    /\ result.out[4][j] = machine_experiences[p].next_observation

C8_ZeroSpreadGuarded ==
    (CalculatedOk /\ process_return \in {"scale_only", "mean_scale", "min_max"})
    => \A i \in 1..Len(machine_experiences) :
           machine_experiences[i].episode = result.args[1]
           => IsFinite(machine_experiences[i].discounted_return)

EpisodeBatchCalled == result.op = "get_episode_batch"

\* the rows get_episode_batch(e, scaled_actions) is to return: one per raw
\* record of e, in log order
ExpectedEpisodeRows(e, scaled_actions) ==
    LET n == Cardinality(PositionsOf(experiences, e))
    IN  /\ Len(result.out) = 3
        /\ \A k \in 1..3 : Len(result.out[k]) = n
        /\ \A j \in 1..n :
               LET p == NthPositionOf(experiences, e, j)
               IN  /\ result.out[1][j] = machine_experiences[p].observation
                   /\ result.out[2][j] =
                          IF scaled_actions
                          THEN machine_experiences[p].action
                          ELSE experiences[p].action
                   /\ result.out[3][j] =
                          machine_experiences[p].discounted_return

\* C9 as claimed: for an episode id in the store get_episode_batch completes
\* and returns three arrays with one row per raw record of the episode, row
\* j taken from the j-th such record.
C9_EpisodeBatchCompletes ==
    (EpisodeBatchCalled /\ PositionsOf(experiences, result.args[1]) # {})
    => /\ result.status = "ok"
       /\ ExpectedEpisodeRows(result.args[1], result.args[2])

\* every machine record of episode e holds a return that is set and not nan
ReturnsUsable(e) ==
    \A p \in PositionsOf(machine_experiences, e) :
        /\ machine_experiences[p].discounted_return # None
        /\ ~IsNaN(machine_experiences[p].discounted_return)

\* C9 as amended: for an episode id in the store get_episode_batch completes
\* exactly when the two logs have the same length and every machine record
\* of the episode holds a return that is set and not nan; it then returns
\* three arrays with one row per raw record of the episode, row j taken from
\* the j-th such record. Otherwise it ends in an error.
C9_EpisodeBatchRows ==
    (EpisodeBatchCalled /\ PositionsOf(experiences, result.args[1]) # {})
    => /\ result.status = "ok"
          <=> (/\ Len(experiences) = Len(machine_experiences)
               /\ ReturnsUsable(result.args[1]))
       /\ result.status = "ok"
          => ExpectedEpisodeRows(result.args[1], result.args[2])
       /\ result.status = "error" => result.out = <<>>

\* a batch of raw actions of the second episode, two rows, after a record of
\* the first
C9_Witness ==
    /\ EpisodeBatchCalled
    /\ result.status = "ok"
    /\ result.args = <<2, FALSE>>
    /\ Len(result.out[1]) = 2
    /\ experiences[1].episode = 1
    /\ result.out[1][1] # result.out[1][2]

\* the returns of episode e before scaling are not all equal
ReturnsSpread(e) ==
    LET rewards == EpisodeRewards(machine_experiences, e)
    IN  \E i, j \in 1..Len(rewards) :
            DiscountedSumFrom(rewards, i, i) # DiscountedSumFrom(rewards, j, j)

\* C10: after calculate_returns(e) for an episode whose returns have nonzero
\* variance and range, every machine record of e has its return set and not
\* nan.
C10_ReturnsSetNotNaN ==
    (CalculatedOk /\ ReturnsSpread(result.args[1]))
    => \A i \in 1..Len(machine_experiences) :
           machine_experiences[i].episode = result.args[1]
           => /\ machine_experiences[i].discounted_return # None
              /\ ~IsNaN(machine_experiences[i].discounted_return)

C10_Witness ==
    /\ CalculatedOk
    /\ process_return = "mean_scale"
    /\ ReturnsSpread(result.args[1])
    /\ Cardinality(PositionsOf(machine_experiences, result.args[1])) = 3
    /\ \A i \in PositionsOf(machine_experiences, result.args[1]) :
           IsFinite(machine_experiences[i].discounted_return)


\* C11: a get_episode_batch or get_random_batch call leaves the raw log, the
\* machine log and agent_stats as they were before the call, whatever it
\* returns and whatever memory_length is.
C11_BatchCallsReadOnly ==
    [][result'.op \in {"get_episode_batch", "get_random_batch"}
       => /\ experiences' = experiences
          /\ machine_experiences' = machine_experiences
          /\ agent_stats' = agent_stats]_vars

C11_Witness ==
    /\ result.op = "get_random_batch"
    /\ result.status = "ok"
    /\ Len(result.out[1]) = 2
    /\ memory_length < Len(machine_experiences)
    /\ Len(experiences) = 3
    /\ agent_stats # <<>>
    /\ calculated # {}


\* the episode ids of a log never go down along the log
EpisodesNonDecreasing(log) ==
    \A i, j \in 1..Len(log) : i < j => log[i].episode <= log[j].episode

\* C12: in every reachable state of the store the episode ids of the raw log
\* and of the machine log are non-decreasing along the log, so that the
\* records of one episode lie next to each other.
C12_EpisodeIdsNonDecreasing ==
    /\ EpisodesNonDecreasing(experiences)
    /\ EpisodesNonDecreasing(machine_experiences)


\* C16: whatever episode ids the add_experience calls were given,
\* calculate_returns for an episode present in the store leaves the machine
\* log at the length it had, so that logs of equal length stay of equal
\* length.
C16_CalculateKeepsLength ==
    [][(result'.op = "calculate_returns" /\ result'.status = "ok")
       => /\ Len(machine_experiences') = Len(machine_experiences)
          /\ Len(experiences) = Len(machine_experiences)
             => Len(experiences') = Len(machine_experiences')]_vars


\* C17: calculate_returns(e) for an episode no record of the machine log
\* belongs to ends in an error and leaves the raw log and the machine log as
\* they were.
C17_AbsentEpisodeRaises ==
    [][(/\ result'.op = "calculate_returns"
        /\ ~EpisodePresent(machine_experiences, result'.args[1]))
       => /\ result'.status = "error"
          /\ experiences' = experiences
          /\ machine_experiences' = machine_experiences]_vars

C17_Witness ==
    /\ result.op = "calculate_returns"
    /\ result.status = "error"
    /\ Len(machine_experiences) = 3
    /\ ~EpisodePresent(experiences, result.args[1])
    /\ calculated # {}
    /\ process_return = "min_max"


\* C18: in the state a calculate_returns(e) call leaves, one more
\* calculate_returns(e) gives the machine log the store already holds: the
\* second of two calls in a row changes nothing, under every process_return
\* mode.
C18_CalculateIdempotent ==
    CalculatedOk
    => CalculateReturns(machine_experiences, result.args[1])
           = machine_experiences

C18_Witness ==
    /\ CalculatedOk
    /\ process_return = "scale_only"
    /\ Cardinality(PositionsOf(machine_experiences, result.args[1])) = 2
    /\ Len(machine_experiences) = 3
    /\ ReturnsSpread(result.args[1])
    /\ CalculateReturns(machine_experiences, result.args[1])
           = machine_experiences


\* the value of a return field holding a number
ValueOf(v) == <<v[2], v[3]>>

\* C14: under process_return 'min_max', after calculate_returns(e) for an
\* episode whose discounted returns are not all equal, the returns written
\* are numbers between 0 and 1, the records with the smallest discounted
\* return hold 0, those with the largest hold 1, and a record with a smaller
\* discounted return than another holds a smaller value.
C14_MinMaxUnitInterval ==
    (CalculatedOk /\ process_return = "min_max"
        /\ ReturnsSpread(result.args[1]))
    => LET rewards == EpisodeRewards(machine_experiences, result.args[1])
           written == EpisodeReturns(machine_experiences, result.args[1])
           raw(j) == DiscountedSumFrom(rewards, j, j)
           n == Len(rewards)
       IN  /\ \A j \in 1..n :
                  /\ written[j][1] = "num"
                  /\ ~RLess(ValueOf(written[j]), Zero)
                  /\ ~RLess(<<1, 1>>, ValueOf(written[j]))
                  /\ (\A i \in 1..n : ~RLess(raw(i), raw(j)))
                     => written[j] = Num(Zero)
                  /\ (\A i \in 1..n : ~RLess(raw(j), raw(i)))
                     => written[j] = Num(<<1, 1>>)
           /\ \A i, j \in 1..n :
                  RLess(raw(i), raw(j))
                  => RLess(ValueOf(written[i]), ValueOf(written[j]))

C14_Witness ==
    /\ CalculatedOk
    /\ process_return = "min_max"
    /\ ReturnsSpread(result.args[1])
    /\ Cardinality(PositionsOf(machine_experiences, result.args[1])) = 3
    /\ \E i \in 1..Len(machine_experiences) :
           /\ machine_experiences[i].episode = result.args[1]
           /\ machine_experiences[i].discounted_return[1] = "num"
           /\ RLess(Zero, ValueOf(machine_experiences[i].discounted_return))
           /\ RLess(ValueOf(machine_experiences[i].discounted_return),
                    <<1, 1>>)


\* C13: whatever add_experience, calculate_returns and agent_stats appends
\* came before it, a reset leaves the raw log, the machine log and
\* agent_stats empty and the spaces, discount, memory_length, process_reward
\* and process_return as they were.
C13_ResetRestoresInitialStore ==
    [][result'.op = "reset"
       => /\ experiences' = <<>>
          /\ machine_experiences' = <<>>
          /\ agent_stats' = <<>>
          /\ config' = config]_vars

C13_Witness ==
    /\ result.op = "reset"
    /\ experiences = <<>>
    /\ machine_experiences = <<>>
    /\ agent_stats = <<>>
    /\ memory_length = 2
    /\ process_reward = "normalize"
    /\ process_return = "min_max"


OutputResultsOk == result.op = "output_results" /\ result.status = "ok"

\* the k-th smallest episode id of the raw log
NthEpisode(k) ==
    CHOOSE e \in {experiences[p].episode : p \in 1..Len(experiences)} :
        Cardinality({experiences[p].episode : p \in 1..Len(experiences)}
                        \cap 1..e) = k

RECURSIVE SumOfRewardsAt(_)
SumOfRewardsAt(positions) ==
    IF positions = {} THEN 0
    ELSE LET p == CHOOSE q \in positions : TRUE
         IN  experiences[p].reward + SumOfRewardsAt(positions \ {p})

\* the summed reward of the episodes with the first-th to last-th smallest
\* ids
RECURSIVE RewardOfEpisodes(_, _)
RewardOfEpisodes(first, last) ==
    IF first > last THEN 0
    ELSE SumOfRewardsAt(PositionsOf(experiences, NthEpisode(first)))
             + RewardOfEpisodes(first + 1, last)

NumberOfEpisodes ==
    Cardinality({experiences[p].episode : p \in 1..Len(experiences)})

\* max(int(0.1 * n), 2) for the n episodes of the raw log
ClaimedWindow ==
    LET tenth == CHOOSE t \in 0..NumberOfEpisodes :
                     10 * t <= NumberOfEpisodes /\ NumberOfEpisodes < 10 * (t + 1)
    IN  IF tenth >= 2 THEN tenth ELSE 2

\* the rolling_mean column holds, for every row i, the mean of the summed
\* rewards of the rows i - before .. i + after that exist
RollingMeanOver(before, after) ==
    /\ Len(result.out.dataframe_episodic.rolling_mean) = NumberOfEpisodes
    /\ \A i \in 1..NumberOfEpisodes :
           LET first == IF i - before < 1 THEN 1 ELSE i - before
               last == IF i + after > NumberOfEpisodes
                       THEN NumberOfEpisodes ELSE i + after
           IN  result.out.dataframe_episodic.rolling_mean[i] =
                   Rat(RewardOfEpisodes(first, last), last - first + 1)

\* C15 as claimed: rolling_mean is the centered rolling mean of the summed
\* reward per episode, the window of max(int(0.1 * n), 2) rows lying around
\* the row (as rolling(center=True) places it) and a window cut at either
\* end of the table being averaged over the rows it holds.
C15_RollingMeanCentered ==
    OutputResultsOk
    => RollingMeanOver(ClaimedWindow - 1 - (ClaimedWindow - 1) \div 2,
                       (ClaimedWindow - 1) \div 2)

\* C15 as amended: rolling_mean is the trailing rolling mean: the window of
\* max(int(0.1 * n), 2) rows ends at the row, and a window cut at the start
\* of the table is averaged over the rows it holds.
C15_RollingMeanTrailing ==
    OutputResultsOk => RollingMeanOver(ClaimedWindow - 1, 0)

C15_Witness ==
    /\ OutputResultsOk
    /\ NumberOfEpisodes = 30
    /\ Len(experiences) = 31
    /\ experiences[15].reward = 1
    /\ result.out.dataframe_episodic.rolling_mean[15] = <<2, 3>>
    /\ result.out.dataframe_episodic.rolling_mean[17] = <<2, 3>>
    /\ result.out.dataframe_episodic.rolling_mean[18] = Zero


\* C19: add_experience is all-or-nothing: when make_machine_experience raises
\* on the experience neither log has changed, and when it returns the
\* experience is appended to the raw log and its machine experience to the
\* machine log, one record each, at the same position.
C19_AddAllOrNothing ==
    [][result'.op = "add_experience"
       => IF MakeMachineExperienceRaises(result'.args[1])
          THEN /\ experiences' = experiences
               /\ machine_experiences' = machine_experiences
          ELSE /\ experiences' = Append(experiences, result'.args[1])
               /\ machine_experiences' =
                      Append(machine_experiences,
                             make_machine_experience(result'.args[1]))
               /\ Len(experiences') = Len(machine_experiences')]_vars

====
